---- MODULE Spec2Model ----
(***************************************************************************)
(* Model of the showroom package of deepagents_ollama:                     *)
(*   - DeepAgentsOllamaAdapter (ollama_adapter.py): the configuration      *)
(*     sanitizer and the six public entry points that delegate to the      *)
(*     wrapped ChatOllama client;                                          *)
(*   - internet_search (agent_deepagents.py): the formatting of the search *)
(*     provider's response.                                                *)
(* Python values are modelled as tagged records [t, v]: t is the Python    *)
(* type the code tests with isinstance, v the payload as a sequence.       *)
(* Strings that the code slices or concatenates are sequences of character *)
(* codes.                                                                  *)
(***************************************************************************)
EXTENDS Integers, Sequences, FiniteSets, TLC

(***************************************************************************)
(* Bounds of the model.                                                    *)
(***************************************************************************)
\* number of chunks the wrapped client's stream yields at most
MaxChunks == 2
\* number of times the caller re-binds (with_config) and goes on with the
\* adapter it got back
MaxRebinds == 2

\* number of items the search provider returns at most
MaxItems == 2
\* how far beyond the truncation threshold a content's length goes
MaxExtra == 2

(***************************************************************************)
(* Python values.                                                          *)
(***************************************************************************)
Val(t, v) == [t |-> t, v |-> v]

None == Val("none", <<>>)

EmptyDict == Val("dict", <<>>)

\* variant: isinstance(x, list), a tuple is not accepted
IsListOnly(x) == x.t = "list"

\* isinstance(x, (list, tuple))
IsListOrTuple(x) == x.t \in {"list", "tuple"}

\* isinstance(x, dict)
IsDict(x) == x.t = "dict"

\* A mapping from keys to values with no keys.
EmptyMap == [k \in {} |-> None]

\* d[k] = x on a dict: adds the key or replaces its value
SetItem(d, k, x) == [j \in (DOMAIN d) \cup {k} |-> IF j = k THEN x ELSE d[j]]

\* The object passed as `config`: None, a mapping (t = "dict", d its items),
\* or something that is not a mapping at all (an int, a non-empty str).
Cfg(t, d) == [t |-> t, d |-> d]

CfgNone == Cfg("none", EmptyMap)

(***************************************************************************)
(* What a call evaluates to: a returned value or a raised exception.       *)
(***************************************************************************)
Returned(x) == [raised |-> "no", value |-> x]

Raised(e) == [raised |-> e, value |-> CfgNone]

\* dict(config): a shallow copy of a mapping; TypeError on a non-iterable,
\* ValueError on an iterable whose elements are not key/value pairs.
DictCopy(config) ==
    CASE config.t = "dict" -> Returned(Cfg("dict", config.d))
      [] config.t = "int"  -> Raised("TypeError")
      [] config.t = "str"  -> Raised("ValueError")

(***************************************************************************)
(* DeepAgentsOllamaAdapter._sanitize_config                                *)
(***************************************************************************)
\* variant: the unsafe value is wrapped into a one-element list ("Option 1")
sanitize_overwrite_wrap(sanitized) ==
    IF "overwrite" \in DOMAIN sanitized
    THEN LET overwrite == sanitized["overwrite"] IN
         IF overwrite # None /\ ~IsListOrTuple(overwrite)
         THEN SetItem(sanitized, "overwrite", Val("list", overwrite.v))
         ELSE sanitized
    ELSE sanitized

\* if "overwrite" in sanitized: a value that is neither None nor a
\* list/tuple is replaced by None (removed, not wrapped in a list)
sanitize_overwrite(sanitized) ==
    IF "overwrite" \in DOMAIN sanitized
    THEN LET overwrite == sanitized["overwrite"] IN
         IF overwrite # None /\ ~IsListOrTuple(overwrite)
         THEN SetItem(sanitized, "overwrite", None)
         ELSE sanitized
    ELSE sanitized

\* variant: the test for None is missing, so that None becomes {} too
sanitize_configurable_no_none_test(sanitized) ==
    IF "configurable" \in DOMAIN sanitized
    THEN LET configurable == sanitized["configurable"] IN
         IF ~IsDict(configurable)
         THEN SetItem(sanitized, "configurable", EmptyDict)
         ELSE sanitized
    ELSE sanitized

\* if "configurable" in sanitized: a value that is neither None nor a dict
\* is replaced by {}
sanitize_configurable(sanitized) ==
    IF "configurable" \in DOMAIN sanitized
    THEN LET configurable == sanitized["configurable"] IN
         IF configurable # None /\ ~IsDict(configurable)
         THEN SetItem(sanitized, "configurable", EmptyDict)
         ELSE sanitized
    ELSE sanitized

\* variant: an absent configuration becomes an empty dict
sanitize_config_empty_for_none(config) ==
    IF config = CfgNone
    THEN Returned(Cfg("dict", EmptyMap))
    ELSE LET copy == DictCopy(config) IN
         IF copy.raised # "no"
         THEN copy
         ELSE Returned(Cfg("dict",
                  sanitize_configurable(sanitize_overwrite(copy.value.d))))

sanitize_config(config) ==
    IF config = CfgNone
    THEN Returned(CfgNone)
    ELSE LET copy == DictCopy(config) IN
         IF copy.raised # "no"
         THEN copy
         ELSE Returned(Cfg("dict",
                  sanitize_configurable(sanitize_overwrite(copy.value.d))))

\* variant: `sanitized = config`, the name is bound to the caller's object
sanitized_ref_alias == "caller"

\* sanitized = dict(config): the name is bound to a new object
sanitized_ref == "copy"

\* the two objects after _sanitize_config(config) ran: the caller's and the
\* one `sanitized` names, which the two assignments write to
sanitize_heap(config) ==
    IF config = CfgNone \/ DictCopy(config).raised # "no"
    THEN [caller |-> config, copy |-> config]
    ELSE LET created == [caller |-> config, copy |-> DictCopy(config).value]
             after_overwrite ==
                 [created EXCEPT ![sanitized_ref] = Cfg("dict", sanitize_overwrite(@.d))]
         IN [after_overwrite EXCEPT
                 ![sanitized_ref] = Cfg("dict", sanitize_configurable(@.d))]

\* the sanitizer has not run (yet) in the current call
NotRun == [raised |-> "notrun", value |-> CfgNone]

(***************************************************************************)
(* The adapter object and the wrapped client.                              *)
(***************************************************************************)
\* ChatOllama(model=..., base_url=..., temperature=...): the client the
\* constructor wraps; `config`/`kwargs` are what with_config bound to it.
BaseClient == [id |-> 1, parent |-> 0, config |-> CfgNone, kwargs |-> EmptyMap]

\* DeepAgentsOllamaAdapter(): model_name is the constructor's `model`
BaseAdapter == [id |-> 1, model_name |-> "gpt-oss:20b", ollama_model |-> BaseClient]

\* self.ollama_model.with_config(sanitized_config, **kwargs): a new client
\* object bound to the given configuration
ClientWithConfig(client, config, kwargs) ==
    [id |-> client.id + 1, parent |-> client.id, config |-> config, kwargs |-> kwargs]

\* one call received by the wrapped client
ClientCall(method, client, input, config, kwargs) ==
    [method |-> method, client |-> client.id, input |-> input,
     config |-> config, kwargs |-> kwargs]

\* outcome of a call as seen by a caller: nothing yet, a returned value or a
\* raised error, with the chunks yielded so far for a stream
Outcome(kind, value, chunks) == [kind |-> kind, value |-> value, chunks |-> chunks]

Pending == Outcome("pending", "-", <<>>)

NoObject == [kind |-> "none"]

\* what one run of a handler leaves behind
Run(sanitized, events, client_calls, client_result, result, returned) ==
    [sanitized |-> sanitized, events |-> events, client_calls |-> client_calls,
     client_result |-> client_result, result |-> result, returned |-> returned]

(***************************************************************************)
(* Inputs.                                                                 *)
(***************************************************************************)
Inputs == {<<"hi">>, <<"hi", "there">>}

Tools == {<<>>, <<"internet_search", "think_tool">>}

Results == {"r1", "r2"}

Errors == {"ConnectionError"}

Chunks == {"c1", "c2"}

\* what the wrapped client's invoke/ainvoke does: return a result or raise
ClientReplies ==
    {Outcome("return", r, <<>>) : r \in Results} \cup
    {Outcome("raise", e, <<>>) : e \in Errors}

OverwriteValues ==
    {None, Val("obj", <<7>>), Val("str", <<1>>), Val("list", <<>>),
     Val("list", <<1, 2>>), Val("tuple", <<2, 1>>)}

ConfigurableValues ==
    {None, EmptyDict, Val("dict", <<1, 2>>), Val("str", <<1>>), Val("list", <<1, 2>>)}

TagsValues == {Val("list", <<5>>)}

ValuesOf(k) ==
    CASE k = "overwrite" -> OverwriteValues
      [] k = "configurable" -> ConfigurableValues
      [] k = "tags" -> TagsValues

Keys == {"overwrite", "configurable", "tags"}

\* every mapping over a subset of the keys
Mappings == UNION {{d \in [ks -> UNION {ValuesOf(k) : k \in ks}] :
                        \A k \in ks : d[k] \in ValuesOf(k)} : ks \in SUBSET Keys}

\* every configuration a caller passes: absent, a mapping, or no mapping
Configs ==
    {CfgNone, Cfg("int", EmptyMap), Cfg("str", EmptyMap)} \cup
    {Cfg("dict", d) : d \in Mappings}

\* **kwargs of a call
Kwargs == {EmptyMap, [configurable |-> Val("str", <<1>>)]}

\* the configurations the caller passes once it works with a re-bound adapter
RebindConfigs ==
    {CfgNone, Cfg("int", EmptyMap),
     Cfg("dict", [overwrite |-> Val("obj", <<7>>), configurable |-> Val("str", <<1>>)]),
     Cfg("dict", [overwrite |-> Val("list", <<1, 2>>), tags |-> Val("list", <<5>>)]),
     Cfg("dict", [configurable |-> Val("dict", <<1, 2>>)])}

(***************************************************************************)
(* State.                                                                  *)
(***************************************************************************)
VARIABLES
    self,           \* the adapter the caller holds: [id, model_name, ollama_model]
    call,           \* the caller's current call: [op, pc, input, config, kwargs]
    sanitized,      \* sanitized_config of the call (what _sanitize_config gave)
    events,         \* what the call did so far, in order
    client_calls,   \* the calls the wrapped client received from this call
    client_result,  \* what the wrapped client returned, yielded or raised
    result,         \* what the call returned, yielded or raised to the caller
    returned,       \* the object a bind_tools / bind / with_config call returned
    caller_config,  \* the caller's configuration object as the call left it
    response,       \* internet_search: the provider's response
    results,        \* internet_search: the list of rendered blocks
    output,         \* internet_search: what the call returned or raised
    provider_calls, \* internet_search: the calls the provider received
    mem_call,       \* memory utilities: the current call, [op, verbose, env]
    mem_events,     \* memory utilities: the runtime and library calls made
    mem_printed,    \* memory utilities: the messages printed
    mem_out         \* memory utilities: what the call returned or raised

adapterVars ==
    <<self, call, sanitized, events, client_calls, client_result, result, returned,
      caller_config>>

searchVars == <<response, results, output, provider_calls>>

memVars == <<mem_call, mem_events, mem_printed, mem_out>>

vars == <<adapterVars, searchVars, memVars>>

Call(op, pc, input, config, kwargs) ==
    [op |-> op, pc |-> pc, input |-> input, config |-> config, kwargs |-> kwargs]

Idle == Call("idle", "done", <<>>, CfgNone, EmptyMap)

NoRun == Run(NotRun, <<>>, <<>>, Pending, Pending, NoObject)

(***************************************************************************)
(* The entry points of DeepAgentsOllamaAdapter.  Each operator is the body *)
(* of the method: `reply` is what the wrapped client does when called.     *)
(* The print() calls are diagnostics and leave no state.                   *)
(***************************************************************************)
\* variant: the wrapped client is given `config`, not `sanitized_config`
delegate_caller_config(slf, method, input, config, kwargs, reply) ==
    LET s == sanitize_config(config) IN
    IF s.raised # "no"
    THEN Run(s, <<"sanitize", "raise">>, <<>>, Pending,
             Outcome("raise", s.raised, <<>>), NoObject)
    ELSE Run(s, <<"sanitize", "delegate", reply.kind>>,
             <<ClientCall(method, slf.ollama_model, input, config, kwargs)>>,
             reply, reply, NoObject)

\* sanitized_config = self._sanitize_config(config), then one delegation
\* `method` of the wrapped client whose outcome is the call's outcome
sanitize_then_delegate(slf, method, input, config, kwargs, reply) ==
    LET s == sanitize_config(config) IN
    IF s.raised # "no"
    THEN Run(s, <<"sanitize", "raise">>, <<>>, Pending,
             Outcome("raise", s.raised, <<>>), NoObject)
    ELSE Run(s, <<"sanitize", "delegate", reply.kind>>,
             <<ClientCall(method, slf.ollama_model, input, s.value, kwargs)>>,
             reply, reply, NoObject)

invoke(slf, input, config, kwargs, reply) ==
    sanitize_then_delegate(slf, "invoke", input, config, kwargs, reply)

ainvoke(slf, input, config, kwargs, reply) ==
    sanitize_then_delegate(slf, "ainvoke", input, config, kwargs, reply)

\* stream is a generator function: the first next() runs the body up to the
\* delegation (`yield from self.ollama_model.stream(...)`)
stream_start(slf, input, config, kwargs) ==
    LET s == sanitize_config(config) IN
    IF s.raised # "no"
    THEN Run(s, <<"sanitize", "raise">>, <<>>, Pending,
             Outcome("raise", s.raised, <<>>), NoObject)
    ELSE Run(s, <<"sanitize", "delegate">>,
             <<ClientCall("stream", slf.ollama_model, input, s.value, kwargs)>>,
             Pending, Pending, NoObject)

\* one step of `yield from`: the wrapped client's iterator yields a chunk,
\* is exhausted, or raises; the generator does the same
stream_step(run, step) ==
    CASE step.kind = "yield" ->
           [run EXCEPT !.events = Append(@, "yield"),
                       !.client_result = Outcome("pending", "-", Append(@.chunks, step.value)),
                       !.result = Outcome("pending", "-", Append(@.chunks, step.value))]
      [] step.kind \in {"return", "raise"} ->
           [run EXCEPT !.events = Append(@, step.kind),
                       !.client_result = Outcome(step.kind, step.value, @.chunks),
                       !.result = Outcome(step.kind, step.value, @.chunks)]

\* bound_model = self.ollama_model.bind_tools(tools, **kwargs); return it
bind_tools(slf, tools, kwargs) ==
    LET bound_model == [kind |-> "binding", client |-> slf.ollama_model.id,
                        tools |-> tools, kwargs |-> kwargs] IN
    Run(NotRun, <<"delegate", "return">>,
        <<ClientCall("bind_tools", slf.ollama_model, tools, CfgNone, kwargs)>>,
        Outcome("return", "bound_model", <<>>), Outcome("return", "bound_model", <<>>),
        bound_model)

\* bound_model = self.ollama_model.bind(**kwargs); return it
bind(slf, kwargs) ==
    LET bound_model == [kind |-> "binding", client |-> slf.ollama_model.id,
                        tools |-> <<>>, kwargs |-> kwargs] IN
    Run(NotRun, <<"delegate", "return">>,
        <<ClientCall("bind", slf.ollama_model, <<>>, CfgNone, kwargs)>>,
        Outcome("return", "bound_model", <<>>), Outcome("return", "bound_model", <<>>),
        bound_model)

\* variant: the wrapped client is re-configured with the caller's
\* configuration as it came, no sanitization step before it
with_config_unsanitized(slf, config, kwargs) ==
    LET new_adapter ==
            [id |-> slf.id + 1,
             model_name |-> slf.model_name,
             ollama_model |-> ClientWithConfig(slf.ollama_model, config, kwargs)]
    IN Run(NotRun, <<"delegate", "return">>,
           <<ClientCall("with_config", slf.ollama_model, <<>>, config, kwargs)>>,
           Outcome("return", "client", <<>>),
           Outcome("return", "new_adapter", <<>>),
           [kind |-> "adapter", adapter |-> new_adapter])

\* variant: model_name is not assigned, the new object keeps the class
\* default "ollama"
with_config_default_name(slf, config, kwargs) ==
    LET s == sanitize_config(config) IN
    IF s.raised # "no"
    THEN Run(s, <<"sanitize", "raise">>, <<>>, Pending,
             Outcome("raise", s.raised, <<>>), NoObject)
    ELSE LET new_adapter ==
                 [id |-> slf.id + 1,
                  model_name |-> "ollama",
                  ollama_model |-> ClientWithConfig(slf.ollama_model, s.value, kwargs)]
         IN Run(s, <<"sanitize", "delegate", "return">>,
                <<ClientCall("with_config", slf.ollama_model, <<>>, s.value, kwargs)>>,
                Outcome("return", "client", <<>>),
                Outcome("return", "new_adapter", <<>>),
                [kind |-> "adapter", adapter |-> new_adapter])

\* a new adapter object (__new__, no __init__) around the re-configured
\* client, with the receiver's model_name
with_config(slf, config, kwargs) ==
    LET s == sanitize_config(config) IN
    IF s.raised # "no"
    THEN Run(s, <<"sanitize", "raise">>, <<>>, Pending,
             Outcome("raise", s.raised, <<>>), NoObject)
    ELSE LET new_adapter ==
                 [id |-> slf.id + 1,
                  model_name |-> slf.model_name,
                  ollama_model |-> ClientWithConfig(slf.ollama_model, s.value, kwargs)]
         IN Run(s, <<"sanitize", "delegate", "return">>,
                <<ClientCall("with_config", slf.ollama_model, <<>>, s.value, kwargs)>>,
                Outcome("return", "client", <<>>),
                Outcome("return", "new_adapter", <<>>),
                [kind |-> "adapter", adapter |-> new_adapter])

(***************************************************************************)
(* Actions of the adapter.                                                 *)
(***************************************************************************)
\* the call `c` has run as far as `run`
Record(c, run) ==
    /\ call' = c
    /\ sanitized' = run.sanitized
    /\ events' = run.events
    /\ client_calls' = run.client_calls
    /\ client_result' = run.client_result
    /\ result' = run.result
    /\ returned' = run.returned
    /\ caller_config' = IF run.sanitized.raised = "notrun"
                        THEN c.config
                        ELSE sanitize_heap(c.config)["caller"]
    /\ UNCHANGED <<self, searchVars, memVars>>

CurrentRun == Run(sanitized, events, client_calls, client_result, result, returned)

Invoke(C) ==
    /\ call.op = "idle"
    /\ \E input \in Inputs, config \in C, kwargs \in Kwargs, reply \in ClientReplies :
        Record(Call("invoke", "done", input, config, kwargs),
               invoke(self, input, config, kwargs, reply))

\* adapter.ainvoke(...) makes a coroutine; nothing runs until it is awaited
AinvokeCall(C) ==
    /\ call.op = "idle"
    /\ \E input \in Inputs, config \in C, kwargs \in Kwargs :
        Record(Call("ainvoke", "created", input, config, kwargs), NoRun)

AinvokeAwait ==
    /\ call.op = "ainvoke" /\ call.pc = "created"
    /\ \E reply \in ClientReplies :
        Record([call EXCEPT !.pc = "done"],
               ainvoke(self, call.input, call.config, call.kwargs, reply))

\* adapter.stream(...) makes a generator; nothing runs until the first next()
StreamCall(C) ==
    /\ call.op = "idle"
    /\ \E input \in Inputs, config \in C, kwargs \in Kwargs :
        Record(Call("stream", "created", input, config, kwargs), NoRun)

\* what the wrapped client's iterator can do at the next step
ClientSteps(chunks) ==
    {Outcome("return", "StopIteration", <<>>)} \cup
    {Outcome("raise", e, <<>>) : e \in Errors} \cup
    (IF Len(chunks) < MaxChunks THEN {Outcome("yield", c, <<>>) : c \in Chunks} ELSE {})

\* next(generator)
StreamNext ==
    /\ call.op = "stream" /\ call.pc \in {"created", "suspended"}
    /\ LET started == IF call.pc = "created"
                      THEN stream_start(self, call.input, call.config, call.kwargs)
                      ELSE CurrentRun
       IN IF started.result.kind = "raise"
          THEN Record([call EXCEPT !.pc = "done"], started)
          ELSE \E step \in ClientSteps(started.client_result.chunks) :
                  Record([call EXCEPT !.pc = IF step.kind = "yield"
                                             THEN "suspended" ELSE "done"],
                         stream_step(started, step))

BindTools ==
    /\ call.op = "idle"
    /\ \E tools \in Tools, kwargs \in Kwargs :
        Record(Call("bind_tools", "done", tools, CfgNone, kwargs),
               bind_tools(self, tools, kwargs))

Bind ==
    /\ call.op = "idle"
    /\ \E kwargs \in Kwargs :
        Record(Call("bind", "done", <<>>, CfgNone, kwargs), bind(self, kwargs))

WithConfig(C) ==
    /\ call.op = "idle"
    /\ \E config \in C, kwargs \in Kwargs :
        Record(Call("with_config", "done", <<>>, config, kwargs),
               with_config(self, config, kwargs))

\* the caller is through with the call (or drops the coroutine or generator
\* where it stands) and is ready for its next call
Forget ==
    /\ call' = Idle
    /\ sanitized' = NotRun /\ events' = <<>> /\ client_calls' = <<>>
    /\ client_result' = Pending /\ result' = Pending /\ returned' = NoObject
    /\ caller_config' = CfgNone
    /\ UNCHANGED <<searchVars, memVars>>

Finish ==
    /\ call.op # "idle"
    /\ Forget
    /\ UNCHANGED self

\* the caller goes on with the adapter with_config returned
Adopt ==
    /\ call.op = "with_config" /\ returned.kind = "adapter"
    /\ self.id <= MaxRebinds
    /\ self' = returned.adapter
    /\ Forget

AdapterInit ==
    /\ self = BaseAdapter
    /\ call = Idle
    /\ sanitized = NotRun /\ events = <<>> /\ client_calls = <<>>
    /\ client_result = Pending /\ result = Pending /\ returned = NoObject
    /\ caller_config = CfgNone

SearchIdle ==
    /\ response = [none |-> TRUE] /\ results = <<>>
    /\ output = Pending /\ provider_calls = <<>>

\* no memory utility is running
NoMemCall == [op |-> "idle"]

MemIdle ==
    /\ mem_call = NoMemCall /\ mem_events = <<>>
    /\ mem_printed = <<>> /\ mem_out = Pending

Init == AdapterInit /\ SearchIdle /\ MemIdle

Next ==
    \/ Invoke(Configs)
    \/ AinvokeCall(Configs)
    \/ AinvokeAwait
    \/ StreamCall(Configs)
    \/ StreamNext
    \/ BindTools
    \/ Bind
    \/ WithConfig(Configs)
    \/ Finish

Spec == Init /\ [][Next]_vars

\* the caller re-binds and goes on with the adapters it gets back
RebindNext ==
    \/ Invoke(RebindConfigs)
    \/ AinvokeCall(RebindConfigs)
    \/ AinvokeAwait
    \/ StreamCall(RebindConfigs)
    \/ StreamNext
    \/ WithConfig(RebindConfigs)
    \/ Finish
    \/ Adopt

RebindSpec == Init /\ [][RebindNext]_vars

(***************************************************************************)
(* internet_search (agent_deepagents.py).  Strings are sequences of        *)
(* character codes.                                                        *)
(***************************************************************************)
\* the length above which a content is cut, and the length it is cut to
TruncateLimit == 2000

\* "... (truncated)"
TruncationMarker ==
    <<46, 46, 46, 32, 40, 116, 114, 117, 110, 99, 97, 116, 101, 100, 41>>

\* "\n\n---\n\n"
Separator == <<10, 10, 45, 45, 45, 10, 10>>

\* "No results found."
NoResultsFound ==
    <<78, 111, 32, 114, 101, 115, 117, 108, 116, 115, 32, 102, 111, 117, 110, 100, 46>>

\* "No Title"
NoTitle == <<78, 111, 32, 84, 105, 116, 108, 101>>

\* mapping.get(key, default)
Get(mapping, key, default) ==
    IF key \in DOMAIN mapping THEN mapping[key] ELSE default

\* variant: the comparison is >=, a content of exactly the limit is cut too
truncate_content_at_limit(content) ==
    IF Len(content) >= TruncateLimit
    THEN SubSeq(content, 1, TruncateLimit) \o TruncationMarker
    ELSE content

\* if len(content) > 2000: content = content[:2000] + "... (truncated)"
truncate_content(content) ==
    IF Len(content) > TruncateLimit
    THEN SubSeq(content, 1, TruncateLimit) \o TruncationMarker
    ELSE content

\* f"**{title}**\nURL: {url}\n{content}" of one item of the response
format_item(item) ==
    LET title == Get(item, "title", NoTitle)
        url == Get(item, "url", <<>>)
        content == truncate_content(Get(item, "content", <<>>))
    IN <<42, 42>> \o title \o <<42, 42, 10, 85, 82, 76, 58, 32>> \o url
         \o <<10>> \o content

\* variant: an item equal to an earlier one of the response is skipped
format_results_dedup(resp) ==
    LET items == Get(resp, "results", <<>>)
        kept == SelectSeq([i \in 1..Len(items) |-> <<i, items[i]>>],
                          LAMBDA p : \A j \in 1..(p[1] - 1) : items[j] # p[2])
    IN [i \in 1..Len(kept) |-> format_item(kept[i][2])]

\* results: one block per item of response.get("results", []), in order
format_results(resp) ==
    LET items == Get(resp, "results", <<>>) IN
    [i \in 1..Len(items) |-> format_item(items[i])]

\* separator.join(blocks)
RECURSIVE Join(_, _)
Join(separator, blocks) ==
    IF Len(blocks) = 0 THEN <<>>
    ELSE IF Len(blocks) = 1 THEN blocks[1]
    ELSE blocks[1] \o separator \o Join(separator, Tail(blocks))

\* variant: the joined blocks are returned as they are, "" for no block
search_output_no_sentinel(blocks) == Join(Separator, blocks)

\* "\n\n---\n\n".join(results) if results else "No results found."
search_output(blocks) ==
    IF Len(blocks) > 0 THEN Join(Separator, blocks) ELSE NoResultsFound

\* a text of n characters, none of them following a short period
Text(n, seed) == [i \in 1..n |-> 97 + ((i * i + seed * i) % 26)]

ContentLengths ==
    {0, 1, TruncateLimit - 1, TruncateLimit} \cup
    {TruncateLimit + k : k \in 1..MaxExtra}

Contents == {Text(n, seed) : n \in ContentLengths, seed \in {1, 2}}

\* "Ollama"
TitleOllama == <<79, 108, 108, 97, 109, 97>>

\* "http://a.io"
UrlA == <<104, 116, 116, 112, 58, 47, 47, 97, 46, 105, 111>>

\* the items a provider returns: with every key, or with keys missing
Items ==
    {[title |-> TitleOllama, url |-> UrlA, content |-> c] : c \in Contents} \cup
    {[url |-> UrlA], [title |-> TitleOllama, content |-> Text(3, 1)]}

RECURSIVE SeqsUpTo(_, _)
SeqsUpTo(S, n) ==
    IF n = 0 THEN {<<>>}
    ELSE LET shorter == SeqsUpTo(S, n - 1) IN
         shorter \cup {Append(q, x) : q \in {r \in shorter : Len(r) = n - 1}, x \in S}

\* the responses of tavily_client.search: a mapping with the items under
\* "results", or one without that key
Responses ==
    {[results |-> items] : items \in SeqsUpTo(Items, MaxItems)} \cup {[query |-> <<120>>]}

ProviderErrors == {"ConnectionError"}

SearchArgs ==
    {[query |-> <<120>>, max_results |-> 5, topic |-> "general",
      include_raw_content |-> FALSE]}

\* no search is running
NoResponse == [none |-> TRUE]

\* internet_search(...) when the provider answers with resp
InternetSearch ==
    /\ output = Pending
    /\ \E args \in SearchArgs, resp \in Responses :
        /\ provider_calls' = <<args>>
        /\ response' = resp
        /\ results' = format_results(resp)
        /\ output' = Outcome("return", search_output(format_results(resp)), <<>>)
    /\ UNCHANGED <<adapterVars, memVars>>

\* internet_search(...) when tavily_client.search raises: nothing catches it
InternetSearchFails ==
    /\ output = Pending
    /\ \E args \in SearchArgs, e \in ProviderErrors :
        /\ provider_calls' = <<args>>
        /\ response' = NoResponse
        /\ results' = <<>>
        /\ output' = Outcome("raise", e, <<>>)
    /\ UNCHANGED <<adapterVars, memVars>>

\* the caller is through with the search
SearchDone ==
    /\ output # Pending
    /\ provider_calls' = <<>> /\ response' = NoResponse
    /\ results' = <<>> /\ output' = Pending
    /\ UNCHANGED <<adapterVars, memVars>>

SearchNext == InternetSearch \/ InternetSearchFails \/ SearchDone

SearchSpec == Init /\ [][SearchNext]_vars

(***************************************************************************)
(* Properties.                                                             *)
(***************************************************************************)
\* the terms of the properties, stated apart from the code's own tests
OrderedSequence(x) == x.t \in {"list", "tuple"}

KeyValueMapping(x) == x.t = "dict"

Absent(x) == x = Val("none", <<>>)

HasKey(config, k) == config.t = "dict" /\ k \in DOMAIN config.d

InvocationOps == {"invoke", "stream", "ainvoke"}

\* the sanitizer ran on the call's configuration and returned
Sanitized == sanitized.raised = "no"

\* position of the first event e of the call, 0 if there is none
FirstEvent(e) ==
    IF \E i \in 1..Len(events) : events[i] = e
    THEN CHOOSE i \in 1..Len(events) :
             events[i] = e /\ \A j \in 1..(i - 1) : events[j] # e
    ELSE 0

\* a configuration whose two fields are safe for a consumer that iterates
SafeConfig(config) ==
    /\ config.t \in {"none", "dict"}
    /\ HasKey(config, "overwrite") =>
           Absent(config.d["overwrite"]) \/ OrderedSequence(config.d["overwrite"])
    /\ HasKey(config, "configurable") =>
           Absent(config.d["configurable"]) \/ KeyValueMapping(config.d["configurable"])

\* C1: whatever configuration invoke, stream or ainvoke is called with, the
\* configuration the wrapped client receives from it has "overwrite" absent
\* (None) or a list/tuple and "configurable" absent (None) or a mapping.
C1_ClientReceivesSafeConfig ==
    \A i \in 1..Len(client_calls) :
        client_calls[i].method \in InvocationOps => SafeConfig(client_calls[i].config)

\* invoke with {"overwrite": some_object, "configurable": "not-a-dict"}: the
\* wrapped client is called with overwrite None and configurable {}
C1_Witness ==
    /\ call.op = "invoke"
    /\ HasKey(call.config, "overwrite") /\ call.config.d["overwrite"].t = "obj"
    /\ HasKey(call.config, "configurable") /\ call.config.d["configurable"].t = "str"
    /\ Len(client_calls) = 1
    /\ client_calls[1].config.d["overwrite"] = Val("none", <<>>)
    /\ client_calls[1].config.d["configurable"] = Val("dict", <<>>)

\* C2 as stated: in each of the six entry points the delegation to the
\* wrapped client is preceded by the sanitization step of the same call.
C2_EverySixSanitizeFirst ==
    FirstEvent("delegate") > 0 =>
        /\ FirstEvent("sanitize") > 0
        /\ FirstEvent("sanitize") < FirstEvent("delegate")

\* C2 amended: invoke, stream, ainvoke and with_config run the sanitization
\* step on the configuration they were given before they delegate, and the
\* wrapped client receives the sanitized configuration; bind_tools and bind
\* take no configuration and delegate their arguments as they came, with no
\* sanitization step.
C2_ConfigEntryPointsSanitizeFirst ==
    FirstEvent("delegate") > 0 =>
        /\ call.op \in InvocationOps \cup {"with_config"} =>
               /\ FirstEvent("sanitize") > 0
               /\ FirstEvent("sanitize") < FirstEvent("delegate")
               /\ Sanitized
               /\ \A i \in 1..Len(client_calls) :
                      /\ client_calls[i].config = sanitized.value
                      /\ SafeConfig(client_calls[i].config)
        /\ call.op \in {"bind_tools", "bind"} =>
               /\ FirstEvent("sanitize") = 0
               /\ \A i \in 1..Len(client_calls) :
                      /\ client_calls[i].kwargs = call.kwargs
                      /\ client_calls[i].input = call.input

\* with_config with an unsafe configuration has delegated after sanitizing
C2_Witness ==
    /\ call.op = "with_config"
    /\ HasKey(call.config, "overwrite") /\ call.config.d["overwrite"].t = "str"
    /\ events = <<"sanitize", "delegate", "return">>
    /\ Len(client_calls) = 1

\* C3: when "overwrite" is a scalar (neither absent nor an ordered sequence),
\* the sanitized configuration has "overwrite" None: the value is dropped,
\* not kept and not wrapped into a sequence.
C3_ScalarOverwriteDropped ==
    (/\ Sanitized
     /\ HasKey(call.config, "overwrite")
     /\ ~Absent(call.config.d["overwrite"])
     /\ ~OrderedSequence(call.config.d["overwrite"]))
    => /\ HasKey(sanitized.value, "overwrite")
       /\ Absent(sanitized.value.d["overwrite"])

C3_Witness ==
    /\ call.op = "ainvoke" /\ call.pc = "done"
    /\ Sanitized
    /\ HasKey(call.config, "overwrite") /\ call.config.d["overwrite"] = Val("obj", <<7>>)
    /\ sanitized.value.d["overwrite"] = Val("none", <<>>)

\* C4: when "overwrite" is already an ordered sequence (a list or a tuple,
\* the empty one included), the sanitized configuration has the same value
\* under "overwrite": same type, same elements, same order.
C4_SequenceOverwriteKept ==
    (/\ Sanitized
     /\ HasKey(call.config, "overwrite")
     /\ OrderedSequence(call.config.d["overwrite"]))
    => /\ HasKey(sanitized.value, "overwrite")
       /\ sanitized.value.d["overwrite"] = call.config.d["overwrite"]

C4_Witness ==
    /\ Sanitized
    /\ HasKey(call.config, "overwrite")
    /\ call.config.d["overwrite"] = Val("tuple", <<2, 1>>)
    /\ sanitized.value.d["overwrite"] = Val("tuple", <<2, 1>>)

\* C5 as stated: with a "configurable" key, the value becomes {} whenever it
\* is not a mapping and is unchanged whenever it is one.
C5_NonMappingConfigurableReplaced ==
    (Sanitized /\ HasKey(call.config, "configurable")) =>
        /\ HasKey(sanitized.value, "configurable")
        /\ IF KeyValueMapping(call.config.d["configurable"])
           THEN sanitized.value.d["configurable"] = call.config.d["configurable"]
           ELSE sanitized.value.d["configurable"] = Val("dict", <<>>)

\* C5 amended: with a "configurable" key, the value becomes {} whenever it
\* is neither None nor a dict, and is unchanged whenever it is None or a
\* dict.
C5_ConfigurableNoneOrDictKept ==
    (Sanitized /\ HasKey(call.config, "configurable")) =>
        /\ HasKey(sanitized.value, "configurable")
        /\ IF \/ KeyValueMapping(call.config.d["configurable"])
              \/ Absent(call.config.d["configurable"])
           THEN sanitized.value.d["configurable"] = call.config.d["configurable"]
           ELSE sanitized.value.d["configurable"] = Val("dict", <<>>)

\* {"configurable": None} went through the sanitizer and is still None
C5_Witness ==
    /\ Sanitized
    /\ HasKey(call.config, "configurable")
    /\ call.config.d["configurable"] = Val("none", <<>>)
    /\ sanitized.value.d["configurable"] = Val("none", <<>>)

\* C6: sanitizing an absent configuration gives absent (None), not an empty
\* mapping, and invoke, stream and ainvoke called without a configuration
\* call the wrapped client with an absent configuration.
C6_AbsentStaysAbsent ==
    (call.op \in InvocationOps \cup {"with_config"} /\ call.config.t = "none") =>
        /\ sanitized.raised \in {"notrun", "no"}
        /\ sanitized.value.t = "none"
        /\ \A i \in 1..Len(client_calls) : client_calls[i].config.t = "none"
        /\ (call.op \in InvocationOps /\ call.pc = "done") => Len(client_calls) = 1

C6_Witness ==
    /\ call.op = "stream" /\ call.config.t = "none"
    /\ Sanitized
    /\ Len(client_calls) = 1 /\ client_calls[1].config.t = "none"

\* C7: sanitization never fails, whatever is passed as the configuration.
C7_SanitizeNeverFails == sanitized.raised \in {"notrun", "no"}

\* C8: a finished invoke, stream or ainvoke call has delegated to the same
\* entry point of the wrapped client exactly once, with the caller's input,
\* and its outcome (result, chunks or error) is the wrapped client's.
C8_DelegatesOnceSameOutcome ==
    (call.op \in InvocationOps /\ call.pc = "done") =>
        /\ Len(client_calls) = 1
        /\ client_calls[1].method = call.op
        /\ client_calls[1].input = call.input
        /\ client_calls[1].kwargs = call.kwargs
        /\ result = client_result
        /\ result.kind \in {"return", "raise"}

\* C9: with_config returns a new adapter, distinct from the receiver, with
\* the receiver's model name, around the receiver's client re-configured
\* with the sanitized configuration; the call leaves the receiver as it
\* was; and the new adapter sanitizes the configurations of its calls.
C9_NewAdapter ==
    (call.op = "with_config" /\ result.kind = "return") =>
        /\ returned.kind = "adapter"
        /\ returned.adapter.id # self.id
        /\ returned.adapter.model_name = self.model_name
        /\ returned.adapter.ollama_model.id # self.ollama_model.id
        /\ returned.adapter.ollama_model.parent = self.ollama_model.id
        /\ Sanitized
        /\ returned.adapter.ollama_model.config = sanitized.value
        /\ SafeConfig(returned.adapter.ollama_model.config)
        /\ returned.adapter.ollama_model.kwargs = call.kwargs

C9_ReboundSanitizes ==
    (self.id > 1 /\ call.op \in InvocationOps) =>
        \A i \in 1..Len(client_calls) :
            /\ client_calls[i].client = self.ollama_model.id
            /\ client_calls[i].config = sanitized.value
            /\ SafeConfig(client_calls[i].config)

C9_WithConfigRebinds ==
    /\ [](C9_NewAdapter /\ C9_ReboundSanitizes /\ self.model_name = "gpt-oss:20b")
    /\ [][call'.op = "with_config" => self' = self]_vars

\* an adapter that with_config returned is called with an unsafe
\* configuration and hands its own client the sanitized one
C9_Witness ==
    /\ self.id = 2 /\ self.ollama_model.parent = 1
    /\ HasKey(self.ollama_model.config, "overwrite")
    /\ call.op = "invoke"
    /\ HasKey(call.config, "overwrite") /\ call.config.d["overwrite"].t = "obj"
    /\ Len(client_calls) = 1
    /\ client_calls[1].client = 2
    /\ client_calls[1].config.d["overwrite"] = Val("none", <<>>)

\* the content a block of `results` ends with: what follows the title line
\* and the URL line of item i
RenderedContent(i) ==
    LET item == response["results"][i]
        header == 2 + Len(Get(item, "title", NoTitle)) + 8 + Len(Get(item, "url", <<>>)) + 1
    IN SubSeq(results[i], header + 1, Len(results[i]))

\* C10: a content longer than 2000 characters is rendered as its first 2000
\* characters followed by "... (truncated)"; a content of 2000 characters
\* or fewer is rendered as it is.
C10_ContentTruncatedAboveLimit ==
    (output.kind = "return" /\ "results" \in DOMAIN response) =>
        /\ Len(results) = Len(response["results"])
        /\ \A i \in 1..Len(results) :
               LET content == Get(response["results"][i], "content", <<>>)
                   rendered == RenderedContent(i)
               IN IF Len(content) > 2000
                  THEN /\ Len(rendered) = 2000 + 15
                       /\ \A j \in 1..2000 : rendered[j] = content[j]
                       /\ SubSeq(rendered, 2001, 2015) =
                              <<46, 46, 46, 32, 40, 116, 114, 117, 110, 99, 97,
                                116, 101, 100, 41>>
                  ELSE rendered = content

\* a response with a content of exactly 2000 characters, rendered as it is,
\* and one of 2001 characters, rendered cut
C10_Witness ==
    /\ output.kind = "return" /\ "results" \in DOMAIN response
    /\ Len(results) = 2
    /\ Len(Get(response["results"][1], "content", <<>>)) = 2000
    /\ RenderedContent(1) = Get(response["results"][1], "content", <<>>)
    /\ Len(Get(response["results"][2], "content", <<>>)) = 2001
    /\ Len(RenderedContent(2)) = 2015

\* where block i of `results` starts in the returned text
RECURSIVE BlockStart(_)
BlockStart(i) ==
    IF i = 1 THEN 1 ELSE BlockStart(i - 1) + Len(results[i - 1]) + 7

\* block b is the three lines of item: "**title**", "URL: url" and the
\* content, which begins as the item's content does
ThreeLineBlock(b, item) ==
    LET title == Get(item, "title", <<78, 111, 32, 84, 105, 116, 108, 101>>)
        url == Get(item, "url", <<>>)
        content == Get(item, "content", <<>>)
        shown == IF Len(content) > 2000 THEN 2000 ELSE Len(content)
        line1 == <<42, 42>> \o title \o <<42, 42>>
        line2 == <<85, 82, 76, 58, 32>> \o url
        header == line1 \o <<10>> \o line2 \o <<10>>
    IN /\ Len(b) >= Len(header) + shown
       /\ SubSeq(b, 1, Len(header)) = header
       /\ SubSeq(b, Len(header) + 1, Len(header) + shown) = SubSeq(content, 1, shown)

\* C11: internet_search calls the provider exactly once per call; what it
\* returns is one three-line block per item of the response, in the
\* provider's order, duplicates kept, joined by "\n\n---\n\n"; with no item
\* it returns "No results found.", never the empty string.
C11_OneBlockPerItemInOrder ==
    /\ output.kind # "pending" => Len(provider_calls) = 1
    /\ output.kind = "return" =>
         LET items == Get(response, "results", <<>>)
             n == Len(items)
             text == output.value
         IN /\ Len(results) = n
            /\ \A i \in 1..n : ThreeLineBlock(results[i], items[i])
            /\ text # <<>>
            /\ n = 0 => text = <<78, 111, 32, 114, 101, 115, 117, 108, 116, 115, 32,
                                 102, 111, 117, 110, 100, 46>>
            /\ n > 0 =>
                 /\ Len(text) = BlockStart(n) + Len(results[n]) - 1
                 /\ \A i \in 1..n :
                        SubSeq(text, BlockStart(i), BlockStart(i) + Len(results[i]) - 1)
                            = results[i]
                 /\ \A i \in 1..(n - 1) :
                        SubSeq(text, BlockStart(i) + Len(results[i]),
                               BlockStart(i) + Len(results[i]) + 6)
                            = <<10, 10, 45, 45, 45, 10, 10>>

\* the provider returned the same item twice and both blocks are in the text
C11_Witness ==
    /\ output.kind = "return" /\ "results" \in DOMAIN response
    /\ Len(response["results"]) = 2
    /\ response["results"][1] = response["results"][2]
    /\ Len(results) = 2 /\ results[1] = results[2]
    /\ Len(provider_calls) = 1
    /\ Len(output.value) = 2 * Len(results[1]) + 7

(***************************************************************************)
(* Memory utilities (memory_utils.py).  The environment `env` says what    *)
(* the accelerator library is and does when called:                        *)
(*   torch           "ok", "missing" (import raises ImportError) or        *)
(*                   "broken" (import raises another exception)            *)
(*   cuda            torch.cuda.is_available()                             *)
(*   backends_mps    hasattr(torch.backends, 'mps')                        *)
(*   mps             torch.backends.mps.is_available()                     *)
(*   mps_empty_cache hasattr(torch.mps, 'empty_cache')                     *)
(*   fails           the library call that raises, "none" if none does     *)
(*   usage           the byte counts the CUDA allocator reports            *)
(***************************************************************************)
LibraryCalls ==
    {"cuda.is_available", "cuda.empty_cache", "cuda.synchronize",
     "mps.is_available", "torch.mps", "mps.empty_cache",
     "cuda.memory_allocated", "cuda.memory_reserved", "cuda.max_memory_allocated"}

Usages ==
    {[allocated |-> 0, reserved |-> 0, max_allocated |-> 0],
     [allocated |-> 3145728, reserved |-> 4194304, max_allocated |-> 5242880]}

Environments ==
    [torch : {"ok", "missing", "broken"}, cuda : BOOLEAN, backends_mps : BOOLEAN,
     mps : BOOLEAN, mps_empty_cache : BOOLEAN,
     fails : LibraryCalls \cup {"none"}, usage : Usages]

\* the call raises in this environment
Fails(env, c) ==
    \/ c = "import torch" /\ env.torch # "ok"
    \/ env.fails = c

\* the calls made one after the other inside a try block, up to and
\* including the first one that raises
RunCalls(env, calls) ==
    LET bad == {i \in 1..Len(calls) : Fails(env, calls[i])} IN
    IF bad = {}
    THEN [events |-> calls, failed |-> FALSE]
    ELSE [events |-> SubSeq(calls, 1, CHOOSE i \in bad : \A j \in bad : i <= j),
          failed |-> TRUE]

\* variant: synchronize is called before empty_cache
cuda_release_calls_swapped == <<"cuda.synchronize", "cuda.empty_cache">>

\* torch.cuda.empty_cache(); torch.cuda.synchronize()
cuda_release_calls == <<"cuda.empty_cache", "cuda.synchronize">>

\* the branch clear_cuda_memory takes after `import torch`
clear_branch(env) ==
    IF env.cuda THEN "cuda"
    ELSE IF env.backends_mps /\ env.mps THEN "mps"
    ELSE "none"

\* the library calls of clear_cuda_memory's try block when none raises
clear_calls(env) ==
    <<"import torch">> \o
    (IF env.torch # "ok" THEN <<>>
     ELSE <<"cuda.is_available">> \o
          (IF env.cuda THEN cuda_release_calls
           ELSE IF env.backends_mps
                THEN <<"mps.is_available">> \o
                     (IF env.mps
                      THEN <<"torch.mps">> \o
                           (IF env.mps_empty_cache THEN <<"mps.empty_cache">> ELSE <<>>)
                      ELSE <<>>)
                ELSE <<>>))

\* the message of the branch, or of the except clause that caught the error
clear_message(env, failed) ==
    IF failed
    THEN IF env.torch = "missing"
         THEN "[MEMORY] PyTorch not available, ran garbage collection only"
         ELSE "[MEMORY] Warning during memory cleanup"
    ELSE CASE clear_branch(env) = "cuda" -> "[MEMORY] CUDA memory cache cleared"
           [] clear_branch(env) = "mps" -> "[MEMORY] MPS memory cache cleared"
           [] OTHER -> "[MEMORY] No GPU backend detected, ran garbage collection only"

\* clear_cuda_memory(verbose): gc.collect(), then the try block
clear_cuda_memory(env, verbose) ==
    LET run == RunCalls(env, clear_calls(env)) IN
    [events |-> <<"gc.collect">> \o run.events,
     printed |-> IF verbose THEN <<clear_message(env, run.failed)>> ELSE <<>>,
     out |-> Outcome("return", None, <<>>)]

\* the library calls of get_memory_stats' try block when none raises
stats_calls(env) ==
    <<"import torch">> \o
    (IF env.torch # "ok" THEN <<>>
     ELSE <<"cuda.is_available">> \o
          (IF env.cuda
           THEN <<"cuda.memory_allocated", "cuda.memory_reserved",
                  "cuda.max_memory_allocated">>
           ELSE IF env.backends_mps THEN <<"mps.is_available">> ELSE <<>>))

\* bytes / 1024 / 1024
Megabytes(bytes) == (bytes \div 1024) \div 1024

\* the dict get_memory_stats returns when no call raises
stats_dict(env) ==
    IF env.cuda
    THEN [backend |-> "cuda",
          allocated_mb |-> Megabytes(env.usage.allocated),
          reserved_mb |-> Megabytes(env.usage.reserved),
          max_allocated_mb |-> Megabytes(env.usage.max_allocated)]
    ELSE IF env.backends_mps /\ env.mps
         THEN [backend |-> "mps",
               note |-> "MPS memory stats limited - Apple Silicon detected"]
         ELSE [backend |-> "cpu", note |-> "No GPU backend available"]

\* variant: there is no `except Exception`, a library error propagates
get_memory_stats_uncaught(env) ==
    LET run == RunCalls(env, stats_calls(env)) IN
    [events |-> run.events,
     printed |-> <<>>,
     out |-> IF run.failed
             THEN IF env.torch = "missing"
                  THEN Outcome("return", None, <<>>)
                  ELSE Outcome("raise", [t |-> "error"], <<>>)
             ELSE Outcome("return", [t |-> "dict", d |-> stats_dict(env)], <<>>)]

\* get_memory_stats(): None on ImportError, {"error": str(e)} on any other
\* exception, the dict of the backend otherwise
get_memory_stats(env) ==
    LET run == RunCalls(env, stats_calls(env)) IN
    [events |-> run.events,
     printed |-> <<>>,
     out |-> IF run.failed
             THEN IF env.torch = "missing"
                  THEN Outcome("return", None, <<>>)
                  ELSE Outcome("return",
                               [t |-> "dict", d |-> [error |-> "str(e)"]], <<>>)
             ELSE Outcome("return", [t |-> "dict", d |-> stats_dict(env)], <<>>)]

ClearCudaMemory ==
    /\ mem_call = NoMemCall
    /\ \E env \in Environments, verbose \in BOOLEAN :
        LET r == clear_cuda_memory(env, verbose) IN
        /\ mem_call' = [op |-> "clear_cuda_memory", verbose |-> verbose, env |-> env]
        /\ mem_events' = r.events
        /\ mem_printed' = r.printed
        /\ mem_out' = r.out
    /\ UNCHANGED <<adapterVars, searchVars>>

GetMemoryStats ==
    /\ mem_call = NoMemCall
    /\ \E env \in Environments :
        LET r == get_memory_stats(env) IN
        /\ mem_call' = [op |-> "get_memory_stats", verbose |-> FALSE, env |-> env]
        /\ mem_events' = r.events
        /\ mem_printed' = r.printed
        /\ mem_out' = r.out
    /\ UNCHANGED <<adapterVars, searchVars>>

\* the caller is through with the call
MemoryDone ==
    /\ mem_call # NoMemCall
    /\ mem_call' = NoMemCall /\ mem_events' = <<>>
    /\ mem_printed' = <<>> /\ mem_out' = Pending
    /\ UNCHANGED <<adapterVars, searchVars>>

MemoryNext == ClearCudaMemory \/ GetMemoryStats \/ MemoryDone

MemorySpec == Init /\ [][MemoryNext]_vars

\* the memory utility made the call c
Called(c) == \E i \in 1..Len(mem_events) : mem_events[i] = c

\* where it made the call c first (0: nowhere)
CalledAt(c) ==
    IF Called(c)
    THEN CHOOSE i \in 1..Len(mem_events) :
             mem_events[i] = c /\ \A j \in 1..(i - 1) : mem_events[j] # c
    ELSE 0

\* the library answered the probes up to the choice of the branch
CudaChosen(env) ==
    env.torch = "ok" /\ env.fails # "cuda.is_available" /\ env.cuda

MpsChosen(env) ==
    /\ env.torch = "ok" /\ ~env.cuda /\ env.backends_mps /\ env.mps
    /\ env.fails \notin {"cuda.is_available", "mps.is_available"}

\* C12: clear_cuda_memory runs the garbage collection first, once and
\* whatever the library is; then on CUDA it releases the cache and after it
\* synchronizes, without touching MPS; else on MPS it releases the cache
\* only if torch.mps has empty_cache; else it releases nothing.  A library
\* error ends the branch where it occurs, and the call returns all the same.
C12_ClearCollectsThenOneBranch ==
    mem_call.op = "clear_cuda_memory" =>
        LET env == mem_call.env IN
        /\ mem_out.kind = "return"
        /\ Len(mem_events) >= 1 /\ mem_events[1] = "gc.collect"
        /\ \A i \in 2..Len(mem_events) : mem_events[i] # "gc.collect"
        /\ CudaChosen(env) =>
               /\ Called("cuda.empty_cache")
               /\ Called("cuda.synchronize") <=> env.fails # "cuda.empty_cache"
               /\ Called("cuda.synchronize") =>
                      CalledAt("cuda.empty_cache") < CalledAt("cuda.synchronize")
               /\ ~Called("mps.is_available") /\ ~Called("torch.mps")
               /\ ~Called("mps.empty_cache")
        /\ MpsChosen(env) =>
               /\ Called("mps.empty_cache") <=>
                      (env.mps_empty_cache /\ env.fails # "torch.mps")
               /\ ~Called("cuda.empty_cache") /\ ~Called("cuda.synchronize")
        /\ (~CudaChosen(env) /\ ~MpsChosen(env)) =>
               /\ ~Called("cuda.empty_cache") /\ ~Called("cuda.synchronize")
               /\ ~Called("mps.empty_cache")

\* CUDA is there and synchronize raises: the cache was released before it,
\* and the call returned
C12_Witness ==
    /\ mem_call.op = "clear_cuda_memory"
    /\ mem_call.env.cuda /\ mem_call.env.fails = "cuda.synchronize"
    /\ mem_events = <<"gc.collect", "import torch", "cuda.is_available",
                      "cuda.empty_cache", "cuda.synchronize">>
    /\ mem_out.kind = "return"

\* no library call raised during the call
NoFailure(env) ==
    /\ env.torch # "broken"
    /\ \A i \in 1..Len(mem_events) : env.fails # mem_events[i]

C14_CallerConfigUntouched ==
    call.op \in InvocationOps \cup {"with_config"} =>
        /\ caller_config = call.config
        /\ (Sanitized /\ call.config.t = "dict") =>
               /\ sanitized.value.t = "dict"
               /\ DOMAIN sanitized.value.d = DOMAIN caller_config.d
               /\ \A k \in (DOMAIN caller_config.d) \ {"overwrite", "configurable"} :
                      sanitized.value.d[k] = caller_config.d[k]

\* both fields were rewritten in the sanitized configuration, and the
\* caller's object still holds the object and the string it came with
C14_Witness ==
    /\ call.op = "invoke" /\ Sanitized
    /\ HasKey(caller_config, "overwrite") /\ HasKey(caller_config, "configurable")
    /\ HasKey(caller_config, "tags")
    /\ caller_config.d["overwrite"] = Val("obj", <<7>>)
    /\ caller_config.d["configurable"] = Val("list", <<1, 2>>)
    /\ sanitized.value.d["overwrite"] = Val("none", <<>>)
    /\ sanitized.value.d["configurable"] = Val("dict", <<>>)
    /\ sanitized.value.d["tags"] = caller_config.d["tags"]

====
